---- MODULE Spec2Model ----
(***************************************************************************)
(* Permission calculator for guild members: the guild-level (baseline)     *)
(* permissions of a member and the member's permissions in a channel once  *)
(* the channel's permission overwrites are applied.                        *)
(*                                                                         *)
(* A permission set (twilight_model's Permissions bitflags) is a set of    *)
(* flag names: insert is union, remove is set difference, contains is      *)
(* subset.  IDs are natural numbers.  A Result is a record                 *)
(* [ok, permissions, error].                                               *)
(***************************************************************************)
EXTENDS FiniteSets, Integers, Sequences, TLC

\* ------------------------------------------------------------------ bounds

\* Longest list of held role IDs handed to Calculator::member.
MaxRoles == 2

\* Longest list of permission overwrites handed to in_channel.
MaxOverwrites == 2

\* Longest list of permission overwrites in the scenarios of the levels
\* (the @everyone role, the held roles, the member).
MaxLevelOverwrites == 3

\* --------------------------------------------------------- permission sets

\* Permissions::empty()
Permissions_empty == {}

\* Permissions::all(): every flag of the bitflags type.
Permissions_all ==
    { "CREATE_INVITE", "KICK_MEMBERS", "BAN_MEMBERS", "ADMINISTRATOR",
      "MANAGE_CHANNELS", "MANAGE_GUILD", "ADD_REACTIONS", "VIEW_AUDIT_LOG",
      "PRIORITY_SPEAKER", "STREAM", "VIEW_CHANNEL", "SEND_MESSAGES",
      "SEND_TTS_MESSAGES", "MANAGE_MESSAGES", "EMBED_LINKS", "ATTACH_FILES",
      "READ_MESSAGE_HISTORY", "MENTION_EVERYONE", "USE_EXTERNAL_EMOJIS",
      "VIEW_GUILD_INSIGHTS", "CONNECT", "SPEAK", "MUTE_MEMBERS",
      "DEAFEN_MEMBERS", "MOVE_MEMBERS", "USE_VAD", "CHANGE_NICKNAME",
      "MANAGE_NICKNAMES", "MANAGE_ROLES", "MANAGE_WEBHOOKS", "MANAGE_EMOJIS" }

\* Permissions associated with sending messages in a guild text channel.
PERMISSIONS_MESSAGING ==
    { "ATTACH_FILES", "EMBED_LINKS", "MENTION_EVERYONE", "SEND_TTS_MESSAGES" }

\* The root permissions with Kick Members left out.
PERMISSIONS_ROOT_without_kick ==
    { "ADMINISTRATOR", "BAN_MEMBERS", "CHANGE_NICKNAME", "MANAGE_EMOJIS",
      "MANAGE_GUILD", "MANAGE_NICKNAMES", "VIEW_AUDIT_LOG",
      "VIEW_GUILD_INSIGHTS" }

\* Permissions associated with a guild only at the root level.
PERMISSIONS_ROOT ==
    { "ADMINISTRATOR", "BAN_MEMBERS", "CHANGE_NICKNAME", "KICK_MEMBERS",
      "MANAGE_EMOJIS", "MANAGE_GUILD", "MANAGE_NICKNAMES", "VIEW_AUDIT_LOG",
      "VIEW_GUILD_INSIGHTS" }

\* Permissions associated with only guild text channels.
PERMISSIONS_TEXT ==
    { "ADD_REACTIONS", "ATTACH_FILES", "EMBED_LINKS", "MANAGE_MESSAGES",
      "MENTION_EVERYONE", "READ_MESSAGE_HISTORY", "SEND_MESSAGES",
      "SEND_TTS_MESSAGES", "USE_EXTERNAL_EMOJIS" }

\* Permissions associated with only voice channels.
PERMISSIONS_VOICE ==
    { "CONNECT", "DEAFEN_MEMBERS", "MOVE_MEMBERS", "MUTE_MEMBERS",
      "PRIORITY_SPEAKER", "SPEAK", "STREAM", "USE_VAD" }

\* ChannelType: the two types in_channel tests for, and one of the others.
ChannelType == { "GuildText", "GuildVoice", "GuildCategory" }

\* ---------------------------------------------------------------- results

\* Error::EveryoneRoleMissing { guild_id }
EveryoneRoleMissing(guild_id) == << "EveryoneRoleMissing", guild_id >>

\* Error::MemberRoleMissing { role_id, user_id }
MemberRoleMissing(role_id, user_id) == << "MemberRoleMissing", role_id, user_id >>

\* Result::Ok(permissions)
Ok(permissions) == [ok |-> TRUE, permissions |-> permissions, error |-> << >>]

\* Result::Err(error): an error carries no permission set.
Err(error) == [ok |-> FALSE, permissions |-> {}, error |-> error]

\* PermissionOverwriteType::Role(RoleId) and ::Member(UserId)
Role(id) == << "Role", id >>
Member(id) == << "Member", id >>

\* PermissionOverwrite { allow, deny, kind }
PermissionOverwrite(allow, deny, kind) ==
    [allow |-> allow, deny |-> deny, kind |-> kind]

\* All sequences over S of length at most n.
SeqsUpTo(S, n) == UNION { [1..k -> S] : k \in 0..n }

\* ------------------------------------------------------------ constructors

\* Calculator::new: best-effort mode is off by default.
Calculator_new(id, owner_id, roles) ==
    [continue_on_missing_items |-> FALSE,
     id |-> id,
     owner_id |-> owner_id,
     roles |-> roles]

\* Calculator::member: the member calculator copies the calculator's fields.
Calculator_member(self, user_id, member_role_ids) ==
    [continue_on_missing_items |-> self.continue_on_missing_items,
     guild_id |-> self.id,
     guild_owner_id |-> self.owner_id,
     member_role_ids |-> member_role_ids,
     roles |-> self.roles,
     user_id |-> user_id]

\* -------------------------------------------- MemberCalculator::permissions

RECURSIVE permissions_roles(_, _, _)

\* The loop with the ADMINISTRATOR test made before the role is looked up.
permissions_roles_admin_first(self, role_ids, permissions) ==
    IF role_ids = << >>
    THEN Ok(permissions)
    ELSE LET role_id == Head(role_ids)
         IN  IF "ADMINISTRATOR" \in permissions
             THEN Ok(Permissions_all)
             ELSE IF role_id \notin DOMAIN self.roles
                  THEN IF self.continue_on_missing_items
                       THEN permissions_roles(self, Tail(role_ids), permissions)
                       ELSE Err(MemberRoleMissing(role_id, self.user_id))
                  ELSE permissions_roles(self, Tail(role_ids),
                                         permissions \cup self.roles[role_id])

\* The loop with a role's permissions assigned instead of inserted.
permissions_roles_assigned(self, role_ids, permissions) ==
    IF role_ids = << >>
    THEN Ok(permissions)
    ELSE LET role_id == Head(role_ids)
         IN  IF role_id \notin DOMAIN self.roles
             THEN IF self.continue_on_missing_items
                  THEN permissions_roles(self, Tail(role_ids), permissions)
                  ELSE Err(MemberRoleMissing(role_id, self.user_id))
             ELSE IF "ADMINISTRATOR" \in permissions
                  THEN Ok(Permissions_all)
                  ELSE permissions_roles(self, Tail(role_ids), self.roles[role_id])

\* The loop over the member's role IDs: a role missing from the map is
\* skipped (best effort) or is an error; then, if the permissions gathered so
\* far hold ADMINISTRATOR, the result is all(); else the role's permissions
\* are inserted.
permissions_roles(self, role_ids, permissions) ==
    IF role_ids = << >>
    THEN Ok(permissions)
    ELSE LET role_id == Head(role_ids)
         IN  IF role_id \notin DOMAIN self.roles
             THEN IF self.continue_on_missing_items
                  THEN permissions_roles(self, Tail(role_ids), permissions)
                  ELSE Err(MemberRoleMissing(role_id, self.user_id))
             ELSE IF "ADMINISTRATOR" \in permissions
                  THEN Ok(Permissions_all)
                  ELSE permissions_roles(self, Tail(role_ids),
                                         permissions \cup self.roles[role_id])

\* permissions() that takes a missing @everyone role as an empty baseline
\* whatever the mode.
permissions_everyone_optional(self) ==
    IF self.user_id = self.guild_owner_id
    THEN Ok(Permissions_all)
    ELSE IF self.guild_id \in DOMAIN self.roles
         THEN permissions_roles(self, self.member_role_ids, self.roles[self.guild_id])
         ELSE permissions_roles(self, self.member_role_ids, Permissions_empty)

\* permissions() that starts from the empty set instead of the @everyone
\* role's permissions.
permissions_empty_baseline(self) ==
    IF self.user_id = self.guild_owner_id
    THEN Ok(Permissions_all)
    ELSE IF self.guild_id \in DOMAIN self.roles
         THEN permissions_roles(self, self.member_role_ids, Permissions_empty)
         ELSE IF self.continue_on_missing_items
              THEN permissions_roles(self, self.member_role_ids, Permissions_empty)
              ELSE Err(EveryoneRoleMissing(self.guild_id))

\* permissions() with the owner check made after the @everyone role was
\* looked up.
permissions_owner_after_everyone(self) ==
    IF self.guild_id \notin DOMAIN self.roles /\ ~self.continue_on_missing_items
    THEN Err(EveryoneRoleMissing(self.guild_id))
    ELSE IF self.user_id = self.guild_owner_id
         THEN Ok(Permissions_all)
         ELSE IF self.guild_id \in DOMAIN self.roles
              THEN permissions_roles(self, self.member_role_ids,
                                     self.roles[self.guild_id])
              ELSE permissions_roles(self, self.member_role_ids, Permissions_empty)

\* permissions() without the owner check.
permissions_no_owner(self) ==
    IF self.guild_id \in DOMAIN self.roles
    THEN permissions_roles(self, self.member_role_ids, self.roles[self.guild_id])
    ELSE IF self.continue_on_missing_items
         THEN permissions_roles(self, self.member_role_ids, Permissions_empty)
         ELSE Err(EveryoneRoleMissing(self.guild_id))

\* The guild-level permissions of a member: all() for the owner; else the
\* @everyone role (the role with the guild's ID) is the baseline and the
\* member's roles are added to it.
permissions(self) ==
    IF self.user_id = self.guild_owner_id
    THEN Ok(Permissions_all)
    ELSE IF self.guild_id \in DOMAIN self.roles
         THEN permissions_roles(self, self.member_role_ids, self.roles[self.guild_id])
         ELSE IF self.continue_on_missing_items
              THEN permissions_roles(self, self.member_role_ids, Permissions_empty)
              ELSE Err(EveryoneRoleMissing(self.guild_id))

\* --------------------------------------------- MemberCalculator::in_channel

\* The test that holds of every role once the member has a role.
has_role_any(self, role) ==
    \E i \in 1..Len(self.member_role_ids) : TRUE

\* The test that takes the roles the member does not have for its roles.
has_role_negated(self, role) ==
    ~\E i \in 1..Len(self.member_role_ids) : self.member_role_ids[i] = role

\* self.member_role_ids.clone().into_iter().any(|r| *r == role)
has_role(self, role) ==
    \E i \in 1..Len(self.member_role_ids) : self.member_role_ids[i] = role

RECURSIVE overwrites_loop(_, _, _)

\* The pass that applies an overwrite of the @everyone role as insert allow,
\* then remove deny.
overwrites_loop_everyone_allow_first(self, channel_overwrites, acc) ==
    IF channel_overwrites = << >>
    THEN acc
    ELSE LET overwrite == Head(channel_overwrites)
             rest == Tail(channel_overwrites)
         IN  IF overwrite.kind[1] = "Role"
             THEN IF overwrite.kind[2] = self.guild_id
                  THEN overwrites_loop(self, rest,
                         [acc EXCEPT !.permissions =
                             (@ \cup overwrite.allow) \ overwrite.deny])
                  ELSE IF ~has_role(self, overwrite.kind[2])
                       THEN overwrites_loop(self, rest, acc)
                       ELSE overwrites_loop(self, rest,
                              [acc EXCEPT !.roles_allow = @ \cup overwrite.allow,
                                          !.roles_deny = @ \cup overwrite.deny])
             ELSE IF overwrite.kind[2] = self.user_id
                  THEN overwrites_loop(self, rest,
                         [acc EXCEPT !.member_allow = @ \cup overwrite.allow,
                                     !.member_deny = @ \cup overwrite.deny])
                  ELSE overwrites_loop(self, rest, acc)

\* The pass that gathers the overwrites of every user as the member's.
overwrites_loop_any_member(self, channel_overwrites, acc) ==
    IF channel_overwrites = << >>
    THEN acc
    ELSE LET overwrite == Head(channel_overwrites)
             rest == Tail(channel_overwrites)
         IN  IF overwrite.kind[1] = "Role"
             THEN IF overwrite.kind[2] = self.guild_id
                  THEN overwrites_loop(self, rest,
                         [acc EXCEPT !.permissions =
                             (@ \ overwrite.deny) \cup overwrite.allow])
                  ELSE IF ~has_role(self, overwrite.kind[2])
                       THEN overwrites_loop(self, rest, acc)
                       ELSE overwrites_loop(self, rest,
                              [acc EXCEPT !.roles_allow = @ \cup overwrite.allow,
                                          !.roles_deny = @ \cup overwrite.deny])
             ELSE overwrites_loop(self, rest,
                    [acc EXCEPT !.member_allow = @ \cup overwrite.allow,
                                !.member_deny = @ \cup overwrite.deny])

\* The pass in which an overwrite of the member replaces what the earlier
\* overwrites of the member allowed and denied.
overwrites_loop_member_assigned(self, channel_overwrites, acc) ==
    IF channel_overwrites = << >>
    THEN acc
    ELSE LET overwrite == Head(channel_overwrites)
             rest == Tail(channel_overwrites)
         IN  IF overwrite.kind[1] = "Role"
             THEN IF overwrite.kind[2] = self.guild_id
                  THEN overwrites_loop(self, rest,
                         [acc EXCEPT !.permissions =
                             (@ \ overwrite.deny) \cup overwrite.allow])
                  ELSE IF ~has_role(self, overwrite.kind[2])
                       THEN overwrites_loop(self, rest, acc)
                       ELSE overwrites_loop(self, rest,
                              [acc EXCEPT !.roles_allow = @ \cup overwrite.allow,
                                          !.roles_deny = @ \cup overwrite.deny])
             ELSE IF overwrite.kind[2] = self.user_id
                  THEN overwrites_loop(self, rest,
                         [acc EXCEPT !.member_allow = overwrite.allow,
                                     !.member_deny = overwrite.deny])
                  ELSE overwrites_loop(self, rest, acc)

\* The pass that gathers an overwrite of the @everyone role with those of
\* the member's roles.
overwrites_loop_everyone_as_role(self, channel_overwrites, acc) ==
    IF channel_overwrites = << >>
    THEN acc
    ELSE LET overwrite == Head(channel_overwrites)
             rest == Tail(channel_overwrites)
         IN  IF overwrite.kind[1] = "Role"
             THEN IF overwrite.kind[2] # self.guild_id
                     /\ ~has_role(self, overwrite.kind[2])
                  THEN overwrites_loop(self, rest, acc)
                  ELSE overwrites_loop(self, rest,
                         [acc EXCEPT !.roles_allow = @ \cup overwrite.allow,
                                     !.roles_deny = @ \cup overwrite.deny])
             ELSE IF overwrite.kind[2] = self.user_id
                  THEN overwrites_loop(self, rest,
                         [acc EXCEPT !.member_allow = @ \cup overwrite.allow,
                                     !.member_deny = @ \cup overwrite.deny])
                  ELSE overwrites_loop(self, rest, acc)

\* The pass over the channel's overwrites.  acc holds the running
\* permissions and the four accumulators.  An overwrite of the @everyone role
\* is applied to the permissions at once; one of a role the member has, or of
\* the member, is gathered; any other is skipped.
overwrites_loop(self, channel_overwrites, acc) ==
    IF channel_overwrites = << >>
    THEN acc
    ELSE LET overwrite == Head(channel_overwrites)
             rest == Tail(channel_overwrites)
         IN  IF overwrite.kind[1] = "Role"
             THEN IF overwrite.kind[2] = self.guild_id
                  THEN overwrites_loop(self, rest,
                         [acc EXCEPT !.permissions =
                             (@ \ overwrite.deny) \cup overwrite.allow])
                  ELSE IF ~has_role(self, overwrite.kind[2])
                       THEN overwrites_loop(self, rest, acc)
                       ELSE overwrites_loop(self, rest,
                              [acc EXCEPT !.roles_allow = @ \cup overwrite.allow,
                                          !.roles_deny = @ \cup overwrite.deny])
             ELSE IF overwrite.kind[2] = self.user_id
                  THEN overwrites_loop(self, rest,
                         [acc EXCEPT !.member_allow = @ \cup overwrite.allow,
                                     !.member_deny = @ \cup overwrite.deny])
                  ELSE overwrites_loop(self, rest, acc)

\* role_view_channel_denied: the same operand is tested twice in the source.
role_view_channel_denied(roles_allow, roles_deny) ==
    /\ "VIEW_CHANNEL" \in roles_deny
    /\ "VIEW_CHANNEL" \notin roles_allow
    /\ "VIEW_CHANNEL" \notin roles_allow

\* The member-level test with allow and deny taken for each other.
member_view_channel_denied_swapped(member_allow, member_deny) ==
    /\ "VIEW_CHANNEL" \in member_allow
    /\ "VIEW_CHANNEL" \notin member_deny

member_view_channel_denied(member_allow, member_deny) ==
    /\ "VIEW_CHANNEL" \in member_deny
    /\ "VIEW_CHANNEL" \notin member_allow

role_send_messages_denied(roles_allow, roles_deny) ==
    /\ "SEND_MESSAGES" \in roles_deny
    /\ "SEND_MESSAGES" \notin roles_allow
    /\ "SEND_MESSAGES" \notin roles_allow

member_send_messages_denied(member_allow, member_deny) ==
    /\ "SEND_MESSAGES" \in member_deny
    /\ "SEND_MESSAGES" \notin member_allow

\* The messaging removal that leaves the member's allow as it is.
remove_messaging_member_allow_kept(denied, acc) ==
    IF denied
    THEN [acc EXCEPT !.roles_allow = @ \ PERMISSIONS_MESSAGING,
                     !.permissions = @ \ PERMISSIONS_MESSAGING]
    ELSE acc

\* The messaging removal applied to the running permissions only.
remove_messaging_permissions_only(denied, acc) ==
    IF denied
    THEN [acc EXCEPT !.permissions = @ \ PERMISSIONS_MESSAGING]
    ELSE acc

\* When Send Messages is denied, the messaging permissions are removed from
\* both allow accumulators and from the running permissions.
remove_messaging(denied, acc) ==
    IF denied
    THEN [acc EXCEPT !.member_allow = @ \ PERMISSIONS_MESSAGING,
                     !.roles_allow = @ \ PERMISSIONS_MESSAGING,
                     !.permissions = @ \ PERMISSIONS_MESSAGING]
    ELSE acc

\* The accumulators applied with the roles' allow before the roles' deny.
apply_accumulated_roles_allow_first(acc) ==
    ((((acc.permissions \cup acc.roles_allow) \ acc.roles_deny)
        \ acc.member_deny) \cup acc.member_allow)

\* The accumulators applied with the roles' deny last.
apply_accumulated_roles_deny_last(acc) ==
    ((((acc.permissions \cup acc.roles_allow) \ acc.member_deny)
        \cup acc.member_allow) \ acc.roles_deny)

\* The accumulators applied with the member's deny before the roles' allow.
apply_accumulated_member_deny_first(acc) ==
    ((((acc.permissions \ acc.roles_deny) \ acc.member_deny)
        \cup acc.roles_allow) \cup acc.member_allow)

\* The accumulators are applied in a fixed order: the roles' deny, the roles'
\* allow, the member's deny, the member's allow.
apply_accumulated(acc) ==
    ((((acc.permissions \ acc.roles_deny) \cup acc.roles_allow)
        \ acc.member_deny) \cup acc.member_allow)

\* The removal of ADMINISTRATOR alone.
remove_root_administrator_only(perms) == perms \ {"ADMINISTRATOR"}

\* Permissions that can't be used in a channel are removed.
remove_root(perms) == perms \ PERMISSIONS_ROOT

\* The channel type removal that strips voice permissions in text channels
\* only.
remove_by_channel_type_voice_in_text(channel_type, perms) ==
    LET no_text == IF channel_type # "GuildText"
                   THEN perms \ PERMISSIONS_TEXT
                   ELSE perms
    IN  IF channel_type = "GuildText"
        THEN no_text \ PERMISSIONS_VOICE
        ELSE no_text

\* Text permissions are removed outside a text channel, voice permissions
\* outside a voice channel.
remove_by_channel_type(channel_type, perms) ==
    LET no_text == IF channel_type # "GuildText"
                   THEN perms \ PERMISSIONS_TEXT
                   ELSE perms
    IN  IF channel_type # "GuildVoice"
        THEN no_text \ PERMISSIONS_VOICE
        ELSE no_text

\* in_channel() that takes an error of permissions() for an empty baseline.
in_channel_error_dropped(self, channel_type, channel_overwrites) ==
    LET root == permissions(self)
        acc == overwrites_loop(self, channel_overwrites,
                   [permissions |-> root.permissions,
                    member_allow |-> Permissions_empty,
                    member_deny |-> Permissions_empty,
                    roles_allow |-> Permissions_empty,
                    roles_deny |-> Permissions_empty])
    IN  IF \/ member_view_channel_denied(acc.member_allow, acc.member_deny)
           \/ role_view_channel_denied(acc.roles_allow, acc.roles_deny)
        THEN Ok(Permissions_empty)
        ELSE LET denied ==
                     \/ member_send_messages_denied(acc.member_allow, acc.member_deny)
                     \/ role_send_messages_denied(acc.roles_allow, acc.roles_deny)
             IN  Ok(remove_by_channel_type(channel_type,
                       remove_root(apply_accumulated(
                           remove_messaging(denied, acc)))))

\* The permissions of the member in a channel.
in_channel(self, channel_type, channel_overwrites) ==
    LET root == permissions(self)
    IN  IF ~root.ok
        THEN root
        ELSE LET acc == overwrites_loop(self, channel_overwrites,
                            [permissions |-> root.permissions,
                             member_allow |-> Permissions_empty,
                             member_deny |-> Permissions_empty,
                             roles_allow |-> Permissions_empty,
                             roles_deny |-> Permissions_empty])
             IN  IF \/ member_view_channel_denied(acc.member_allow, acc.member_deny)
                    \/ role_view_channel_denied(acc.roles_allow, acc.roles_deny)
                 THEN Ok(Permissions_empty)
                 ELSE LET denied ==
                              \/ member_send_messages_denied(acc.member_allow, acc.member_deny)
                              \/ role_send_messages_denied(acc.roles_allow, acc.roles_deny)
                      IN  Ok(remove_by_channel_type(channel_type,
                                remove_root(apply_accumulated(
                                    remove_messaging(denied, acc)))))

\* ------------------------------------------------ RoleCalculator::in_channel

\* RoleCalculatorError::PermissionOverwriteNotRole
PermissionOverwriteNotRole == << "PermissionOverwriteNotRole" >>

\* RoleCalculator { permissions }
RoleCalculator(perms) == [permissions |-> perms]

\* The role's permissions with the allow inserted before the deny is removed.
RoleCalculator_in_channel_allow_first(self, permission_overwrite) ==
    IF permission_overwrite.kind[1] # "Role"
    THEN Err(PermissionOverwriteNotRole)
    ELSE Ok((self.permissions \cup permission_overwrite.allow)
                \ permission_overwrite.deny)

\* The permissions of the role in the channel: an overwrite that is not a
\* role's is an error; else the deny is removed, then the allow inserted.
RoleCalculator_in_channel(self, permission_overwrite) ==
    IF permission_overwrite.kind[1] # "Role"
    THEN Err(PermissionOverwriteNotRole)
    ELSE Ok((self.permissions \ permission_overwrite.deny)
                \cup permission_overwrite.allow)

\* ------------------------------------------------------------------- state

VARIABLES
    calculator,          \* the Calculator being configured
    member_calculator,   \* << >>, or << the MemberCalculator made by member() >>
    permissions_result,  \* << >>, or << the Result of permissions() >>
    in_channel_call,     \* << >>, or << the arguments and Result of in_channel() >>
    role_calculator,     \* << >>, or << a RoleCalculator >>
    role_in_channel_call \* << >>, or << the argument and Result of its in_channel() >>

vars == << calculator, member_calculator, permissions_result, in_channel_call,
           role_calculator, role_in_channel_call >>

\* The guild, its owner and a member who is not the owner.
GuildId == 1
OwnerId == 2
UserId == 3

\* Role IDs: the @everyone role has the guild's ID.
RoleIds == { GuildId, 4, 5 }

\* The permissions a role of the map may carry, per role.
RolePermissions(role_id) ==
    IF role_id = GuildId
    THEN { {"ADMINISTRATOR"}, {"VIEW_CHANNEL", "CONNECT"} }
    ELSE IF role_id = 4
         THEN { {"ADMINISTRATOR", "STREAM"}, {"SEND_MESSAGES", "EMBED_LINKS"} }
         ELSE { {"ADMINISTRATOR"}, {"KICK_MEMBERS", "MANAGE_MESSAGES"} }

\* The role maps: every role is absent or carries one of its permission sets.
RoleMaps ==
    UNION { { f \in [D -> UNION { RolePermissions(r) : r \in RoleIds }] :
                \A r \in D : f[r] \in RolePermissions(r) } : D \in SUBSET RoleIds }

\* The members: the owner or another user, with up to MaxRoles role IDs.
UserIds == { OwnerId, UserId }
RoleIdLists == SeqsUpTo(RoleIds, MaxRoles)

\* The overwrites of a channel of the guild-level scenarios.
Overwrites ==
    { PermissionOverwrite({"SEND_MESSAGES", "BAN_MEMBERS"}, {"VIEW_CHANNEL"}, Role(GuildId)),
      PermissionOverwrite({"SPEAK"}, {"SEND_MESSAGES"}, Member(UserId)) }

\* The role maps of the channel-level scenarios: one where every role is
\* present and the baseline holds bits of every kind, one without the
\* @everyone role and with empty roles.
ChannelRoleMaps ==
    { [r \in RoleIds |->
          IF r = GuildId
          THEN {"VIEW_CHANNEL", "SEND_MESSAGES", "EMBED_LINKS", "MENTION_EVERYONE",
                "CONNECT", "KICK_MEMBERS", "MANAGE_ROLES"}
          ELSE IF r = 4 THEN {"MANAGE_MESSAGES"} ELSE {"SPEAK"}],
      [r \in RoleIds \ {GuildId} |-> Permissions_empty] }

\* The role ID lists of the channel-level scenarios.
ChannelRoleIdLists == { << >>, << 4 >>, << 4, 5 >>, << GuildId, 4 >> }

\* What an overwrite of the channel-level scenarios allows and denies.
AllowDeny ==
    { << {"SEND_TTS_MESSAGES"}, {"VIEW_CHANNEL"} >>,
      << {"VIEW_CHANNEL"}, {} >>,
      << {"ATTACH_FILES"}, {"SEND_MESSAGES"} >>,
      << {"SEND_MESSAGES", "MANAGE_ROLES"}, {} >>,
      << {"EMBED_LINKS", "KICK_MEMBERS", "CONNECT", "MANAGE_WEBHOOKS"}, {"MANAGE_ROLES"} >> }

\* Whom an overwrite targets: a role or a user.
OverwriteKinds ==
    { Role(r) : r \in RoleIds } \cup { Member(u) : u \in UserIds }

\* The overwrites of a channel of the channel-level scenarios.
ChannelOverwrites ==
    { PermissionOverwrite(ad[1], ad[2], kind) : ad \in AllowDeny, kind \in OverwriteKinds }

\* The benchmark's scenario: a member who is not the owner, the guild's three
\* roles, and the channel's two overwrites.
BenchUserId == 6
BenchRoles ==
    [r \in RoleIds |->
        IF r = GuildId THEN {"VIEW_CHANNEL"}
        ELSE IF r = 4 THEN {"MANAGE_ROLES"} ELSE {"SEND_MESSAGES"}]
BenchOverwrites ==
    << PermissionOverwrite({"SEND_TTS_MESSAGES"}, Permissions_empty, Role(4)),
       PermissionOverwrite({"MANAGE_MESSAGES"}, {"SEND_MESSAGES"}, Role(5)) >>

\* The scenarios around the benchmark's: the role map with roles left out,
\* the owner or the member, lists of the roles 4 and 5, lists of the two
\* overwrites.
BenchRoleMaps == { [r \in D |-> BenchRoles[r]] : D \in SUBSET RoleIds }
BenchUserIds == { OwnerId, BenchUserId }
BenchRoleIdLists == SeqsUpTo({4, 5}, MaxRoles)
BenchOverwriteLists ==
    SeqsUpTo({ BenchOverwrites[i] : i \in 1..Len(BenchOverwrites) }, MaxOverwrites)

\* The scenarios of the levels: the role map with every role, the member
\* with one or two roles, and overwrites of the @everyone role, of the two
\* roles and of the member, which allow and deny the same few flags.
LevelRoleMaps == { roles \in ChannelRoleMaps : GuildId \in DOMAIN roles }
LevelRoleIdLists == { << 4 >>, << 4, 5 >> }
LevelAllowDeny ==
    { << {"MANAGE_ROLES"}, {"SEND_MESSAGES"} >>,
      << {"SEND_MESSAGES", "EMBED_LINKS"}, {"MANAGE_ROLES"} >>,
      << {"VIEW_CHANNEL", "MANAGE_WEBHOOKS", "KICK_MEMBERS"}, {"MANAGE_WEBHOOKS"} >>,
      << {}, {"VIEW_CHANNEL"} >> }
LevelKinds == { Role(GuildId), Role(4), Role(5), Member(UserId) }
LevelOverwrites ==
    { PermissionOverwrite(ad[1], ad[2], kind) : ad \in LevelAllowDeny, kind \in LevelKinds }

\* The role calculators and the overwrites handed to them: every starting
\* set, allow and deny over three flags, for a role or for a user.
RoleFlags == { "VIEW_CHANNEL", "SEND_MESSAGES", "MANAGE_ROLES" }
RoleCalculators == { RoleCalculator(p) : p \in SUBSET RoleFlags }
RoleOverwrites ==
    { PermissionOverwrite(allow, deny, kind) :
        allow \in SUBSET RoleFlags, deny \in SUBSET RoleFlags, kind \in OverwriteKinds }

\* ----------------------------------------------------------------- actions

\* Calculator::new(id, owner_id, roles)
Init ==
    /\ calculator \in { Calculator_new(GuildId, OwnerId, roles) : roles \in RoleMaps }
    /\ member_calculator = << >>
    /\ permissions_result = << >>
    /\ in_channel_call = << >>
    /\ role_calculator = << >>
    /\ role_in_channel_call = << >>

\* Calculator::continue_on_missing_items(flag)
ContinueOnMissingItems ==
    /\ member_calculator = << >>
    /\ \E flag \in BOOLEAN :
          calculator' = [calculator EXCEPT !.continue_on_missing_items = flag]
    /\ UNCHANGED << member_calculator, permissions_result, in_channel_call,
                    role_calculator, role_in_channel_call >>

\* Calculator::member(user_id, member_role_ids)
MemberOf(user_ids, role_id_lists) ==
    /\ member_calculator = << >>
    /\ \E user_id \in user_ids, member_role_ids \in role_id_lists :
          member_calculator' =
              << Calculator_member(calculator, user_id, member_role_ids) >>
    /\ UNCHANGED << calculator, permissions_result, in_channel_call,
                    role_calculator, role_in_channel_call >>

\* permissions() that takes the role IDs out of the member calculator as it
\* goes through them.
PermissionsCall_drains_role_ids ==
    /\ member_calculator # << >>
    /\ in_channel_call = << >>
    /\ permissions_result' = << permissions(member_calculator[1]) >>
    /\ member_calculator' =
          << [member_calculator[1] EXCEPT !.member_role_ids = << >>] >>
    /\ UNCHANGED << calculator, in_channel_call,
                    role_calculator, role_in_channel_call >>

\* MemberCalculator::permissions(&self)
PermissionsCall ==
    /\ member_calculator # << >>
    /\ in_channel_call = << >>
    /\ permissions_result' = << permissions(member_calculator[1]) >>
    /\ UNCHANGED << calculator, member_calculator, in_channel_call,
                    role_calculator, role_in_channel_call >>

\* MemberCalculator::in_channel(self, channel_type, channel_overwrites):
\* the call consumes the member calculator, so it is the last one.
InChannelCall(overwrite_lists) ==
    /\ member_calculator # << >>
    /\ in_channel_call = << >>
    /\ \E channel_type \in ChannelType, channel_overwrites \in overwrite_lists :
          in_channel_call' =
              << [channel_type |-> channel_type,
                  channel_overwrites |-> channel_overwrites,
                  result |-> in_channel(member_calculator[1], channel_type,
                                        channel_overwrites)] >>
    /\ UNCHANGED << calculator, member_calculator, permissions_result,
                    role_calculator, role_in_channel_call >>

Next ==
    \/ ContinueOnMissingItems
    \/ MemberOf(UserIds, RoleIdLists)
    \/ PermissionsCall
    \/ InChannelCall(SeqsUpTo(Overwrites, MaxOverwrites))

\* Guild-level scenarios: every role map, every member, a few overwrites.
Spec == Init /\ [][Next]_vars

\* Calculator::new(id, owner_id, roles), for the channel-level scenarios.
InitChannel ==
    /\ calculator \in { Calculator_new(GuildId, OwnerId, roles) : roles \in ChannelRoleMaps }
    /\ member_calculator = << >>
    /\ permissions_result = << >>
    /\ in_channel_call = << >>
    /\ role_calculator = << >>
    /\ role_in_channel_call = << >>

NextChannel ==
    \/ ContinueOnMissingItems
    \/ MemberOf(UserIds, ChannelRoleIdLists)
    \/ PermissionsCall
    \/ InChannelCall(SeqsUpTo(ChannelOverwrites, MaxOverwrites))

\* Channel-level scenarios: a few role maps and members, every overwrite list.
SpecChannel == InitChannel /\ [][NextChannel]_vars

\* Calculator::new(id, owner_id, roles), for the benchmark's scenarios.
InitBench ==
    /\ calculator \in { Calculator_new(GuildId, OwnerId, roles) : roles \in BenchRoleMaps }
    /\ member_calculator = << >>
    /\ permissions_result = << >>
    /\ in_channel_call = << >>
    /\ role_calculator = << >>
    /\ role_in_channel_call = << >>

NextBench ==
    \/ ContinueOnMissingItems
    \/ MemberOf(BenchUserIds, BenchRoleIdLists)
    \/ PermissionsCall
    \/ InChannelCall(BenchOverwriteLists)

\* The benchmark's scenario and its neighbours.
SpecBench == InitBench /\ [][NextBench]_vars

\* Calculator::new(id, owner_id, roles), for the scenarios of the levels.
InitLevels ==
    /\ calculator \in { Calculator_new(GuildId, OwnerId, roles) : roles \in LevelRoleMaps }
    /\ member_calculator = << >>
    /\ permissions_result = << >>
    /\ in_channel_call = << >>
    /\ role_calculator = << >>
    /\ role_in_channel_call = << >>

NextLevels ==
    \/ MemberOf({UserId}, LevelRoleIdLists)
    \/ PermissionsCall
    \/ InChannelCall(SeqsUpTo(LevelOverwrites, MaxLevelOverwrites))

\* The scenarios of the levels: longer overwrite lists over fewer flags.
SpecLevels == InitLevels /\ [][NextLevels]_vars

\* RoleCalculator::in_channel(self, permission_overwrite): the call consumes
\* the role calculator.
RoleInChannelCall ==
    /\ role_calculator # << >>
    /\ role_in_channel_call = << >>
    /\ \E permission_overwrite \in RoleOverwrites :
          role_in_channel_call' =
              << [permission_overwrite |-> permission_overwrite,
                  result |-> RoleCalculator_in_channel(role_calculator[1],
                                                       permission_overwrite)] >>
    /\ UNCHANGED << calculator, member_calculator, permissions_result,
                    in_channel_call, role_calculator >>

\* A role calculator of a guild's calculator.
InitRole ==
    /\ calculator = Calculator_new(GuildId, OwnerId, BenchRoles)
    /\ member_calculator = << >>
    /\ permissions_result = << >>
    /\ in_channel_call = << >>
    /\ role_calculator \in { << rc >> : rc \in RoleCalculators }
    /\ role_in_channel_call = << >>

NextRole ==
    \/ ContinueOnMissingItems
    \/ RoleInChannelCall

\* The role calculator's scenarios.
SpecRole == InitRole /\ [][NextRole]_vars

\* ------------------------------------------------------------------ claims

\* The member calculator and the in_channel call of a state that has them.
mc == member_calculator[1]
call == in_channel_call[1]

HasMember == member_calculator # << >>
PermissionsCalled == HasMember /\ permissions_result # << >>
InChannelCalled == HasMember /\ in_channel_call # << >>

IsOwner == mc.user_id = mc.guild_owner_id

\* The flag sets as the documentation of in_channel lists them.
RootOnly ==
    { "ADMINISTRATOR", "BAN_MEMBERS", "CHANGE_NICKNAME", "KICK_MEMBERS",
      "MANAGE_EMOJIS", "MANAGE_GUILD", "MANAGE_NICKNAMES", "VIEW_AUDIT_LOG",
      "VIEW_GUILD_INSIGHTS" }
TextOnly ==
    { "ADD_REACTIONS", "ATTACH_FILES", "EMBED_LINKS", "MANAGE_MESSAGES",
      "MENTION_EVERYONE", "READ_MESSAGE_HISTORY", "SEND_MESSAGES",
      "SEND_TTS_MESSAGES", "USE_EXTERNAL_EMOJIS" }
VoiceOnly ==
    { "CONNECT", "DEAFEN_MEMBERS", "MOVE_MEMBERS", "MUTE_MEMBERS",
      "PRIORITY_SPEAKER", "SPEAK", "STREAM", "USE_VAD" }
OffCategory(channel_type) ==
    IF channel_type = "GuildText" THEN VoiceOnly
    ELSE IF channel_type = "GuildVoice" THEN TextOnly
    ELSE TextOnly \cup VoiceOnly

\* An overwrite of the list targets a role the member holds (other than the
\* @everyone role), or the member, and denies / allows flag x.
HeldRoleOverwrite(o) ==
    /\ o.kind[1] = "Role"
    /\ o.kind[2] # mc.guild_id
    /\ \E i \in 1..Len(mc.member_role_ids) : mc.member_role_ids[i] = o.kind[2]
MemberOverwrite(o) == o.kind = Member(mc.user_id)
EveryoneOverwrite(o) == o.kind = Role(mc.guild_id)
CallOverwrites == { call.channel_overwrites[i] : i \in 1..Len(call.channel_overwrites) }
RoleDenies(x) == \E o \in CallOverwrites : HeldRoleOverwrite(o) /\ x \in o.deny
RoleAllows(x) == \E o \in CallOverwrites : HeldRoleOverwrite(o) /\ x \in o.allow
MemberDenies(x) == \E o \in CallOverwrites : MemberOverwrite(o) /\ x \in o.deny
MemberAllows(x) == \E o \in CallOverwrites : MemberOverwrite(o) /\ x \in o.allow

Strict == ~mc.continue_on_missing_items
EveryonePresent == mc.guild_id \in DOMAIN mc.roles
HeldIndexes == 1..Len(mc.member_role_ids)
HeldPresent(i) == mc.member_role_ids[i] \in DOMAIN mc.roles

\* C2 (as claimed): for a member who is not the owner, if a held role carries
\* ADMINISTRATOR, wherever it stands in the list, permissions() returns
\* exactly all(); in strict mode this needs the @everyone role and the held
\* roles before that one to be present, and no more.
C2_AdministratorShortCircuit ==
    (PermissionsCalled /\ ~IsOwner) =>
        \A i \in HeldIndexes :
            ( /\ HeldPresent(i)
              /\ "ADMINISTRATOR" \in mc.roles[mc.member_role_ids[i]]
              /\ Strict => (EveryonePresent /\ \A j \in 1..(i - 1) : HeldPresent(j)) )
            => permissions_result[1] = Ok(Permissions_all)

\* C8: in strict mode, for a member who is not the owner, when the @everyone
\* role is absent from the role map, permissions() and in_channel() return
\* Err(EveryoneRoleMissing) carrying the guild ID.
C8_StrictEveryoneMissing ==
    (HasMember /\ Strict /\ ~IsOwner /\ ~EveryonePresent) =>
        /\ PermissionsCalled =>
              permissions_result[1] =
                  [ok |-> FALSE, permissions |-> {},
                   error |-> << "EveryoneRoleMissing", mc.guild_id >>]
        /\ InChannelCalled =>
              call.result =
                  [ok |-> FALSE, permissions |-> {},
                   error |-> << "EveryoneRoleMissing", mc.guild_id >>]

\* C8 witness: both calls made in strict mode by a member who is not the
\* owner and holds roles, without the @everyone role, with overwrites given.
C8_Witness ==
    /\ PermissionsCalled /\ InChannelCalled
    /\ Strict /\ ~IsOwner /\ ~EveryonePresent
    /\ \E i \in HeldIndexes : HeldPresent(i)
    /\ \E i \in HeldIndexes : ~HeldPresent(i)
    /\ call.channel_overwrites # << >>

\* The first held role missing from the role map, and whether ADMINISTRATOR
\* was already gathered when some held role before it was processed.
FirstMissing ==
    CHOOSE i \in HeldIndexes : ~HeldPresent(i) /\ \A j \in 1..(i - 1) : HeldPresent(j)
GatheredBefore(j) ==
    mc.roles[mc.guild_id] \cup UNION { mc.roles[mc.member_role_ids[k]] : k \in 1..(j - 1) }
AdminSeenBefore(i) == \E j \in 1..(i - 1) : "ADMINISTRATOR" \in GatheredBefore(j)

FilledRoles ==
    [r \in DOMAIN mc.roles \cup {mc.guild_id}
            \cup { mc.member_role_ids[i] : i \in HeldIndexes } |->
        IF r \in DOMAIN mc.roles THEN mc.roles[r] ELSE {}]

\* C10 (as claimed): in best-effort mode permissions() and in_channel() never
\* return an error, and the result is the one computed with each missing
\* role present with the empty permission set.
C10_BestEffort ==
    (HasMember /\ ~Strict) =>
        /\ PermissionsCalled =>
              /\ permissions_result[1].ok
              /\ permissions_result[1] = permissions([mc EXCEPT !.roles = FilledRoles])
        /\ InChannelCalled =>
              /\ call.result.ok
              /\ call.result = in_channel([mc EXCEPT !.roles = FilledRoles],
                                          call.channel_type, call.channel_overwrites)

\* In best-effort mode no call returns an error.
BestEffortNeverErr ==
    (HasMember /\ ~Strict) =>
        /\ PermissionsCalled => permissions_result[1].ok
        /\ InChannelCalled => call.result.ok

MessagingFlags ==
    { "ATTACH_FILES", "EMBED_LINKS", "MENTION_EVERYONE", "SEND_TTS_MESSAGES" }

\* Flag x is denied at the role level, or at the member level, with no allow
\* of it at the same level.
DeniedAtALevel(x) ==
    \/ RoleDenies(x) /\ ~RoleAllows(x)
    \/ MemberDenies(x) /\ ~MemberAllows(x)

C4_MemberAllowOffsetsRoleDeny ==
    (InChannelCalled /\ call.result.ok
        /\ RoleDenies("VIEW_CHANNEL")
        /\ MemberAllows("VIEW_CHANNEL") /\ ~MemberDenies("VIEW_CHANNEL")) =>
        "VIEW_CHANNEL" \in call.result.permissions

C6_RootStripped ==
    (InChannelCalled /\ call.result.ok) =>
        call.result.permissions \cap RootOnly = {}

\* C6 witness: permissions() holds a root-only flag, an overwrite that
\* applies to the member allows one, and in_channel() returned other flags.
C6_Witness ==
    /\ PermissionsCalled /\ InChannelCalled /\ ~IsOwner
    /\ permissions_result[1].ok
    /\ "KICK_MEMBERS" \in permissions_result[1].permissions
    /\ MemberAllows("KICK_MEMBERS")
    /\ call.result.ok
    /\ call.result.permissions # {}

\* C7: a successful in_channel() result for a text channel holds no voice
\* flag, for a voice channel no text flag, for any other channel neither.
C7_CategoryFiltering ==
    (InChannelCalled /\ call.result.ok) =>
        /\ call.channel_type = "GuildText" =>
              call.result.permissions \cap VoiceOnly = {}
        /\ call.channel_type = "GuildVoice" =>
              call.result.permissions \cap TextOnly = {}
        /\ call.channel_type \notin {"GuildText", "GuildVoice"} =>
              call.result.permissions \cap (TextOnly \cup VoiceOnly) = {}

\* C7 witness: in a channel that is neither text nor voice, the baseline
\* holds text and voice flags, the member's overwrite allows more of them,
\* and the result is not empty.
C7_Witness ==
    /\ PermissionsCalled /\ InChannelCalled /\ ~IsOwner
    /\ call.channel_type = "GuildCategory"
    /\ permissions_result[1].ok
    /\ {"SEND_MESSAGES", "CONNECT"} \subseteq permissions_result[1].permissions
    /\ MemberAllows("EMBED_LINKS") /\ MemberAllows("CONNECT")
    /\ call.result.ok
    /\ call.result.permissions # {}

\* The flags the everyone overwrites of the call allow.
EveryoneAllows(x) == \E o \in CallOverwrites : EveryoneOverwrite(o) /\ x \in o.allow

\* The flags the held roles' overwrites of the call deny, and the flags the
\* member's overwrites allow and deny.
HeldRolesDenied == UNION { o.deny : o \in { q \in CallOverwrites : HeldRoleOverwrite(q) } }
MemberAllowed == UNION { o.allow : o \in { q \in CallOverwrites : MemberOverwrite(q) } }
MemberDenied == UNION { o.deny : o \in { q \in CallOverwrites : MemberOverwrite(q) } }

C12_MemberDenyBeatsRoleAllow ==
    (InChannelCalled /\ call.result.ok) =>
        \A x \in MemberDenied \ MemberAllowed :
            ( \/ RoleAllows(x)
              \/ EveryoneAllows(x)
              \/ x \in permissions(mc).permissions )
            => x \notin call.result.permissions

\* C12 witness: a held role's overwrite allows MANAGE_ROLES, the baseline
\* holds it too, the member's overwrite denies it, and the result is not
\* empty.
C12_Witness ==
    /\ PermissionsCalled /\ InChannelCalled /\ ~IsOwner
    /\ permissions_result[1].ok
    /\ "MANAGE_ROLES" \in permissions_result[1].permissions
    /\ RoleAllows("MANAGE_ROLES")
    /\ MemberDenies("MANAGE_ROLES") /\ ~MemberAllows("MANAGE_ROLES")
    /\ call.result.ok
    /\ call.result.permissions # {}

\* The member calculator and the call are those of the worked scenario:
\* guild 1, owner 2, roles {1: VIEW_CHANNEL, 4: MANAGE_ROLES,
\* 5: SEND_MESSAGES}, member 6 holding only role 5, overwrites [Role 4: allow
\* SEND_TTS_MESSAGES; Role 5: allow MANAGE_MESSAGES, deny SEND_MESSAGES], in
\* a text channel.
WorkedScenario ==
    /\ InChannelCalled
    /\ mc.guild_id = 1 /\ mc.guild_owner_id = 2 /\ mc.user_id = 6
    /\ DOMAIN mc.roles = {1, 4, 5}
    /\ mc.roles[1] = {"VIEW_CHANNEL"}
    /\ mc.roles[4] = {"MANAGE_ROLES"}
    /\ mc.roles[5] = {"SEND_MESSAGES"}
    /\ mc.member_role_ids = << 5 >>
    /\ call.channel_type = "GuildText"
    /\ call.channel_overwrites =
          << [allow |-> {"SEND_TTS_MESSAGES"}, deny |-> {}, kind |-> << "Role", 4 >>],
             [allow |-> {"MANAGE_MESSAGES"}, deny |-> {"SEND_MESSAGES"},
              kind |-> << "Role", 5 >>] >>

\* C13: in the worked scenario in_channel() returns exactly
\* {VIEW_CHANNEL, MANAGE_MESSAGES}: SEND_MESSAGES, SEND_TTS_MESSAGES and
\* MANAGE_ROLES are absent.
C13_WorkedScenario ==
    WorkedScenario =>
        /\ call.result =
              [ok |-> TRUE, permissions |-> {"VIEW_CHANNEL", "MANAGE_MESSAGES"},
               error |-> << >>]
        /\ call.result.permissions \cap
              {"SEND_MESSAGES", "SEND_TTS_MESSAGES", "MANAGE_ROLES"} = {}

\* C13 witness: the worked scenario's call was made, in strict mode as in
\* the benchmark, after permissions() returned the guild-level set.
C13_Witness ==
    /\ WorkedScenario /\ Strict /\ PermissionsCalled
    /\ permissions_result[1].ok
    /\ permissions_result[1].permissions = {"VIEW_CHANNEL", "SEND_MESSAGES"}

\* The role calculator's call of a state that has it.
role_call == role_in_channel_call[1]
RoleInChannelCalled == role_calculator # << >> /\ role_in_channel_call # << >>

C14_ErrWitness ==
    /\ RoleInChannelCalled
    /\ calculator.continue_on_missing_items
    /\ role_call.permission_overwrite.kind[1] = "Member"
    /\ ~role_call.result.ok

\* C15: in_channel() returns an error exactly when permissions() of the same
\* member calculator does, the same error and no permission set; when
\* permissions() succeeds in_channel() succeeds, whatever the overwrites and
\* the channel type.
C15_ErrorPropagation ==
    (PermissionsCalled /\ InChannelCalled) =>
        /\ call.result.ok <=> permissions_result[1].ok
        /\ ~permissions_result[1].ok =>
              /\ call.result.error = permissions_result[1].error
              /\ call.result.error # << >>
              /\ call.result.permissions = {}
        /\ call.result.ok => call.result.error = << >>

\* C15 witness: permissions() returned MemberRoleMissing and in_channel()
\* was then called with overwrites of the @everyone role and of the member.
C15_Witness ==
    /\ PermissionsCalled /\ InChannelCalled
    /\ ~permissions_result[1].ok
    /\ permissions_result[1].error[1] = "MemberRoleMissing"
    /\ \E o \in CallOverwrites : MemberOverwrite(o)
    /\ \E o \in CallOverwrites : EveryoneOverwrite(o)
    /\ ~call.result.ok

\* The orders a list can be put in.
PermutationsOf(seq) ==
    { [i \in 1..Len(seq) |-> seq[f[i]]] : f \in Permutations(1..Len(seq)) }

PresentHeld == { i \in HeldIndexes : HeldPresent(i) }

\* ADMINISTRATOR is carried by the @everyone role, or by every held role the
\* map has, or by none of them.
AdministratorUniform ==
    \/ EveryonePresent /\ "ADMINISTRATOR" \in mc.roles[mc.guild_id]
    \/ \A i \in PresentHeld : "ADMINISTRATOR" \in mc.roles[mc.member_role_ids[i]]
    \/ \A i \in PresentHeld : "ADMINISTRATOR" \notin mc.roles[mc.member_role_ids[i]]

Applicable(o) == EveryoneOverwrite(o) \/ HeldRoleOverwrite(o) \/ MemberOverwrite(o)

\* C17: in_channel() returns what it returns for the list with every
\* overwrite of a role the member does not hold (other than the @everyone
\* role) and of another user taken out, wherever they stand in the list.
C17_InapplicableOverwritesIgnored ==
    (InChannelCalled /\ \E o \in CallOverwrites : ~Applicable(o)) =>
        call.result = in_channel(mc, call.channel_type,
                                 SelectSeq(call.channel_overwrites, Applicable))

\* C17 witness: the list holds an overwrite of a role the member does not
\* hold that allows a flag, before an overwrite that applies to the member;
\* the result is not empty and does not hold that flag.
C17_Witness ==
    /\ InChannelCalled /\ ~IsOwner
    /\ mc.member_role_ids # << >>
    /\ Len(call.channel_overwrites) = 2
    /\ call.channel_overwrites[1].kind[1] = "Role"
    /\ ~Applicable(call.channel_overwrites[1])
    /\ "MANAGE_WEBHOOKS" \in call.channel_overwrites[1].allow
    /\ Applicable(call.channel_overwrites[2])
    /\ call.result.ok
    /\ call.result.permissions # {}
    /\ "MANAGE_WEBHOOKS" \notin call.result.permissions

\* C17 witness for another user's overwrite: it denies VIEW_CHANNEL and the
\* result still holds VIEW_CHANNEL.
C17_OtherMemberWitness ==
    /\ InChannelCalled /\ ~IsOwner
    /\ \E o \in CallOverwrites :
          /\ o.kind[1] = "Member" /\ ~Applicable(o)
          /\ "VIEW_CHANNEL" \in o.deny
    /\ call.result.ok
    /\ "VIEW_CHANNEL" \in call.result.permissions

\* A step in which permissions() or in_channel() returns.
CallStep ==
    \/ permissions_result' # permissions_result
    \/ in_channel_call' # in_channel_call

EveryoneAndHeld ==
    mc.roles[mc.guild_id] \cup
        UNION { mc.roles[mc.member_role_ids[i]] : i \in HeldIndexes }

\* C19: for a member who is not the owner, with the @everyone role and every
\* held role in the role map and ADMINISTRATOR in none of them,
\* permissions() returns exactly the union of their permission sets, which
\* holds the @everyone role's permissions.
C19_AdditiveBaseline ==
    (PermissionsCalled /\ ~IsOwner /\ EveryonePresent
        /\ (\A i \in HeldIndexes : HeldPresent(i))
        /\ "ADMINISTRATOR" \notin EveryoneAndHeld) =>
        /\ permissions_result[1] =
              [ok |-> TRUE, permissions |-> EveryoneAndHeld, error |-> << >>]
        /\ mc.roles[mc.guild_id] \subseteq permissions_result[1].permissions

\* C19 witness: two different held roles and the @everyone role each bring
\* a flag the others do not have.
C19_Witness ==
    /\ PermissionsCalled /\ ~IsOwner /\ EveryonePresent
    /\ \A i \in HeldIndexes : HeldPresent(i)
    /\ "ADMINISTRATOR" \notin EveryoneAndHeld
    /\ Len(mc.member_role_ids) >= 2
    /\ mc.member_role_ids[1] # mc.guild_id
    /\ mc.member_role_ids[2] \notin {mc.guild_id, mc.member_role_ids[1]}
    /\ {"VIEW_CHANNEL", "SEND_MESSAGES", "KICK_MEMBERS"}
           \subseteq permissions_result[1].permissions

\* C20: in strict mode, for a member who is not the owner, when the loop
\* reaches a held role that is absent from the role map with ADMINISTRATOR
\* already among the gathered permissions (from the @everyone role or the
\* held role just before), permissions() returns Err(MemberRoleMissing)
\* with that role's ID and the member's user ID, not Ok(all()).
C20_LookupBeforeAdministrator ==
    (PermissionsCalled /\ Strict /\ ~IsOwner /\ EveryonePresent) =>
        \A i \in HeldIndexes :
            ( /\ ~HeldPresent(i)
              /\ \A j \in 1..(i - 1) : HeldPresent(j)
              /\ \A j \in 1..(i - 1) : "ADMINISTRATOR" \notin GatheredBefore(j)
              /\ "ADMINISTRATOR" \in GatheredBefore(i) )
            => /\ permissions_result[1] =
                     [ok |-> FALSE, permissions |-> {},
                      error |-> << "MemberRoleMissing", mc.member_role_ids[i],
                                   mc.user_id >>]
               /\ permissions_result[1] #
                     [ok |-> TRUE, permissions |-> Permissions_all, error |-> << >>]

\* C20 witness: the @everyone role carries ADMINISTRATOR, the first held
\* role is absent from the role map and a later one is present, and
\* permissions() returned the error.
C20_Witness ==
    /\ PermissionsCalled /\ Strict /\ ~IsOwner /\ EveryonePresent
    /\ "ADMINISTRATOR" \in mc.roles[mc.guild_id]
    /\ Len(mc.member_role_ids) >= 2
    /\ ~HeldPresent(1) /\ HeldPresent(2)
    /\ ~permissions_result[1].ok
    /\ permissions_result[1].error[1] = "MemberRoleMissing"

\* C20 witness with ADMINISTRATOR gathered from a held role: the first held
\* role carries it, the second is absent from the role map.
C20_HeldRoleWitness ==
    /\ PermissionsCalled /\ Strict /\ ~IsOwner /\ EveryonePresent
    /\ "ADMINISTRATOR" \notin mc.roles[mc.guild_id]
    /\ Len(mc.member_role_ids) >= 2
    /\ HeldPresent(1) /\ "ADMINISTRATOR" \in mc.roles[mc.member_role_ids[1]]
    /\ ~HeldPresent(2)
    /\ ~permissions_result[1].ok

\* C21: when the member's user ID is the owner's, in strict mode as in any
\* mode, permissions() returns Ok(all()) whatever the role map lacks, the
\* @everyone role and every held role included; no call of the owner
\* returns an error.
C21_OwnerBeforeLookups ==
    (HasMember /\ mc.user_id = mc.guild_owner_id) =>
        /\ PermissionsCalled =>
              /\ permissions_result[1].ok
              /\ permissions_result[1].error = << >>
              /\ permissions_result[1].permissions = Permissions_all
        /\ InChannelCalled => call.result.ok /\ call.result.error = << >>

\* C21 witness: in strict mode the owner holds roles, the role map has
\* neither the @everyone role nor any held role, and permissions() returned.
C21_Witness ==
    /\ PermissionsCalled /\ IsOwner /\ Strict
    /\ ~EveryonePresent
    /\ Len(mc.member_role_ids) >= 2
    /\ \A i \in HeldIndexes : ~HeldPresent(i)
    /\ permissions_result[1].ok

\* The flags the everyone overwrites of the call deny, and the flags the
\* overwrites of the call name at all.
EveryoneDenies(x) == \E o \in CallOverwrites : EveryoneOverwrite(o) /\ x \in o.deny
NamedFlags == UNION { o.allow \cup o.deny : o \in CallOverwrites }

\* Flag x can be in a result for this channel type and call: it is not
\* root-only, not of another channel category, and no cascade removes it.
Survives(x) ==
    /\ x \notin RootOnly \cup OffCategory(call.channel_type)
    /\ ~DeniedAtALevel("VIEW_CHANNEL")
    /\ x \in MessagingFlags => ~DeniedAtALevel("SEND_MESSAGES")

\* C22 (as claimed): for a flag x that survives, if an everyone overwrite
\* allows x and the held roles' overwrites or the member's deny it with no
\* allow at the same level, the result does not hold x; if an everyone
\* overwrite denies x and a held role's overwrite or the member's allows it,
\* the result holds x.
C22_EveryoneOverwriteFirst ==
    (InChannelCalled /\ call.result.ok) =>
        \A x \in { y \in NamedFlags : Survives(y) } :
            /\ (EveryoneAllows(x) /\ DeniedAtALevel(x))
                  => x \notin call.result.permissions
            /\ (EveryoneDenies(x) /\ (RoleAllows(x) \/ MemberAllows(x)))
                  => x \in call.result.permissions

\* C22 (amended): the levels are taken in the order everyone, held roles,
\* member.  For a flag x that survives: if an everyone overwrite allows x
\* and either the member's overwrite denies x with no member allow, or a
\* held role's overwrite denies x with no held-role allow and no member
\* allow, the result does not hold x; if an everyone overwrite denies x and
\* either the member's overwrite allows x, or a held role's overwrite allows
\* x and the member's does not deny it, the result holds x.
C22_EveryoneOverwriteFirstByLevel ==
    (InChannelCalled /\ call.result.ok) =>
        \A x \in { y \in NamedFlags : Survives(y) } :
            /\ ( /\ EveryoneAllows(x)
                 /\ \/ MemberDenies(x) /\ ~MemberAllows(x)
                    \/ RoleDenies(x) /\ ~RoleAllows(x) /\ ~MemberAllows(x) )
                 => x \notin call.result.permissions
            /\ ( /\ EveryoneDenies(x)
                 /\ \/ MemberAllows(x)
                    \/ RoleAllows(x) /\ ~MemberDenies(x) )
                 => x \in call.result.permissions

\* C22 witness: the everyone overwrite stands last in the list and allows
\* MANAGE_ROLES, which a held role's overwrite before it denies; the result
\* is not empty and does not hold MANAGE_ROLES.
C22_Witness ==
    /\ InChannelCalled /\ call.result.ok
    /\ Len(call.channel_overwrites) >= 2
    /\ EveryoneOverwrite(call.channel_overwrites[Len(call.channel_overwrites)])
    /\ "MANAGE_ROLES" \in call.channel_overwrites[Len(call.channel_overwrites)].allow
    /\ HeldRoleOverwrite(call.channel_overwrites[1])
    /\ "MANAGE_ROLES" \in call.channel_overwrites[1].deny
    /\ ~RoleAllows("MANAGE_ROLES") /\ ~MemberAllows("MANAGE_ROLES")
    /\ call.result.permissions # {}
    /\ "MANAGE_ROLES" \notin call.result.permissions

\* C22 witness of the other direction: the everyone overwrite stands last
\* and denies MANAGE_ROLES, which the member's overwrite before it allows,
\* and the result holds MANAGE_ROLES.
C22_AllowWitness ==
    /\ InChannelCalled /\ call.result.ok
    /\ Len(call.channel_overwrites) >= 2
    /\ EveryoneOverwrite(call.channel_overwrites[Len(call.channel_overwrites)])
    /\ "MANAGE_ROLES" \in call.channel_overwrites[Len(call.channel_overwrites)].deny
    /\ MemberOverwrite(call.channel_overwrites[1])
    /\ "MANAGE_ROLES" \in call.channel_overwrites[1].allow
    /\ "MANAGE_ROLES" \in call.result.permissions

\* The places of the call's list where an everyone overwrite stands.
EveryoneIndexes ==
    { i \in 1..Len(call.channel_overwrites) :
        EveryoneOverwrite(call.channel_overwrites[i]) }

\* C23: when at most one overwrite of the list targets the @everyone role,
\* in_channel() returns the same result for every order of the list.
C23_OverwriteOrderIndependence ==
    (InChannelCalled /\ Cardinality(EveryoneIndexes) <= 1) =>
        \A channel_overwrites \in PermutationsOf(call.channel_overwrites) :
            in_channel(mc, call.channel_type, channel_overwrites) = call.result

\* C23 witness: the list has the one everyone overwrite between two
\* overwrites of the member, the first of which allows MANAGE_ROLES and the
\* second denies it; the result is not empty.
C23_Witness ==
    /\ InChannelCalled /\ call.result.ok
    /\ Len(call.channel_overwrites) = 3
    /\ EveryoneIndexes = {2}
    /\ MemberOverwrite(call.channel_overwrites[1])
    /\ MemberOverwrite(call.channel_overwrites[3])
    /\ "MANAGE_ROLES" \in call.channel_overwrites[1].allow
    /\ "MANAGE_ROLES" \in call.channel_overwrites[3].deny
    /\ call.result.permissions # {}

\* The flags the held roles' overwrites of the call allow.
HeldRolesAllowed == UNION { o.allow : o \in { q \in CallOverwrites : HeldRoleOverwrite(q) } }

RECURSIVE AfterEveryone(_, _)

\* The baseline B after the everyone overwrites of the list, each applied in
\* its turn as remove deny, insert allow.
AfterEveryone(overwrites, B) ==
    IF overwrites = << >>
    THEN B
    ELSE IF Head(overwrites).kind = << "Role", mc.guild_id >>
         THEN AfterEveryone(Tail(overwrites),
                            (B \ Head(overwrites).deny) \cup Head(overwrites).allow)
         ELSE AfterEveryone(Tail(overwrites), B)

\* The reference formula over the baseline B.
Reference(B) ==
    LET applied ==
            ((((AfterEveryone(call.channel_overwrites, B) \ HeldRolesDenied)
                \cup HeldRolesAllowed) \ MemberDenied) \cup MemberAllowed) \ RootOnly
        text == IF call.channel_type = "GuildText" THEN applied ELSE applied \ TextOnly
    IN  IF call.channel_type = "GuildVoice" THEN text ELSE text \ VoiceOnly

\* C24: when neither cascade fires, the result of in_channel() is the
\* reference formula over the result of permissions(); with no overwrites it
\* is that result less the root-only flags and the flags of the other
\* channel categories, the flags of the channel's category being kept.
C24_ReferenceFormula ==
    (PermissionsCalled /\ InChannelCalled /\ permissions_result[1].ok
        /\ ~DeniedAtALevel("VIEW_CHANNEL") /\ ~DeniedAtALevel("SEND_MESSAGES")) =>
        /\ call.result =
              [ok |-> TRUE, permissions |-> Reference(permissions_result[1].permissions),
               error |-> << >>]
        /\ call.channel_overwrites = << >> =>
              /\ call.result.permissions =
                    (permissions_result[1].permissions \ RootOnly)
                        \ OffCategory(call.channel_type)
              /\ call.channel_type = "GuildText" =>
                    permissions_result[1].permissions \cap TextOnly
                        \subseteq call.result.permissions
              /\ call.channel_type = "GuildVoice" =>
                    permissions_result[1].permissions \cap VoiceOnly
                        \subseteq call.result.permissions

\* C24 witness: in a text channel, with overwrites of the everyone role, of
\* a held role and of the member that each allow and deny flags and fire no
\* cascade, the result holds a flag of the baseline, one a held role's
\* overwrite allows and one the member's allows.
C24_Witness ==
    /\ PermissionsCalled /\ InChannelCalled /\ permissions_result[1].ok
    /\ call.channel_type = "GuildText"
    /\ ~DeniedAtALevel("VIEW_CHANNEL") /\ ~DeniedAtALevel("SEND_MESSAGES")
    /\ EveryoneIndexes # {}
    /\ HeldRolesAllowed # {} /\ HeldRolesDenied # {}
    /\ MemberAllowed # {} /\ MemberDenied # {}
    /\ "KICK_MEMBERS" \in permissions_result[1].permissions
    /\ {"VIEW_CHANNEL", "SEND_MESSAGES", "MANAGE_WEBHOOKS"}
           \subseteq call.result.permissions

\* C24 witness of the empty list: in a voice channel the baseline holds
\* text, voice and root-only flags and the result keeps the voice flags.
C24_EmptyListWitness ==
    /\ PermissionsCalled /\ InChannelCalled /\ permissions_result[1].ok
    /\ call.channel_type = "GuildVoice"
    /\ call.channel_overwrites = << >>
    /\ {"SEND_MESSAGES", "CONNECT", "KICK_MEMBERS"}
           \subseteq permissions_result[1].permissions
    /\ "CONNECT" \in call.result.permissions

ApplicableAllowed == UNION { o.allow : o \in { q \in CallOverwrites : Applicable(q) } }

\* C26: every flag of an in_channel() result is in the result of
\* permissions() or is allowed by an overwrite of the @everyone role, of a
\* held role or of the member; so a flag that only overwrites of other
\* roles or users allow, or that is only denied, is not in the result.
C26_NoEscalation ==
    (PermissionsCalled /\ InChannelCalled /\ call.result.ok) =>
        /\ permissions_result[1].ok
        /\ call.result.permissions \subseteq
              permissions_result[1].permissions \cup ApplicableAllowed

\* C26 witness: an overwrite of another user allows MANAGE_WEBHOOKS, which
\* the baseline does not hold; an overwrite that applies to the member adds
\* a flag to the baseline; the result does not hold MANAGE_WEBHOOKS.
C26_Witness ==
    /\ PermissionsCalled /\ InChannelCalled /\ ~IsOwner
    /\ permissions_result[1].ok /\ call.result.ok
    /\ \E o \in CallOverwrites :
          /\ o.kind[1] = "Member" /\ ~Applicable(o)
          /\ "MANAGE_WEBHOOKS" \in o.allow
    /\ "MANAGE_WEBHOOKS" \notin permissions_result[1].permissions
    /\ call.result.permissions \ permissions_result[1].permissions # {}
    /\ "MANAGE_WEBHOOKS" \notin call.result.permissions

\* The flags denied by the overwrites of the call that apply to the member.
ApplicableDenied == UNION { o.deny : o \in { q \in CallOverwrites : Applicable(q) } }

\* Flag x is denied by an everyone overwrite and by no overwrite of a held
\* role or of the member.
DeniedByEveryoneOnly(x) == EveryoneDenies(x) /\ ~RoleDenies(x) /\ ~MemberDenies(x)

\* C27: when VIEW_CHANNEL is denied by everyone overwrites only, the result
\* is not emptied: it keeps every flag of the baseline that no overwrite
\* denies and that the channel can carry (messaging flags aside when the
\* messaging cascade fires), and lacks VIEW_CHANNEL unless an overwrite
\* allows it.  When SEND_MESSAGES is denied by everyone overwrites only and
\* the visibility cascade has not fired, the messaging flags of the baseline
\* that no overwrite denies are kept in a text channel, and the result lacks
\* SEND_MESSAGES unless an overwrite allows it.
C27_EveryoneOverwriteNoCascade ==
    (PermissionsCalled /\ InChannelCalled /\ permissions_result[1].ok) =>
        LET B == permissions_result[1].permissions
            kept == ((B \ ApplicableDenied) \ RootOnly) \ OffCategory(call.channel_type)
        IN  /\ DeniedByEveryoneOnly("VIEW_CHANNEL") =>
                  /\ call.result.ok
                  /\ (IF DeniedAtALevel("SEND_MESSAGES")
                       THEN kept \ MessagingFlags ELSE kept)
                         \subseteq call.result.permissions
                  /\ "VIEW_CHANNEL" \notin ApplicableAllowed =>
                         "VIEW_CHANNEL" \notin call.result.permissions
            /\ (DeniedByEveryoneOnly("SEND_MESSAGES")
                    /\ ~DeniedAtALevel("VIEW_CHANNEL")) =>
                  /\ call.result.ok
                  /\ kept \subseteq call.result.permissions
                  /\ "SEND_MESSAGES" \notin ApplicableAllowed =>
                         "SEND_MESSAGES" \notin call.result.permissions

\* C27 witness: an everyone overwrite denies VIEW_CHANNEL, which the
\* baseline holds and no overwrite allows, a held role's overwrite is in the
\* list too, and the text channel's result holds other flags of the
\* baseline.
C27_Witness ==
    /\ PermissionsCalled /\ InChannelCalled /\ permissions_result[1].ok
    /\ call.channel_type = "GuildText"
    /\ DeniedByEveryoneOnly("VIEW_CHANNEL")
    /\ "VIEW_CHANNEL" \notin ApplicableAllowed
    /\ "VIEW_CHANNEL" \in permissions_result[1].permissions
    /\ \E o \in CallOverwrites : HeldRoleOverwrite(o)
    /\ call.result.ok
    /\ "VIEW_CHANNEL" \notin call.result.permissions
    /\ {"MANAGE_MESSAGES", "MENTION_EVERYONE"} \subseteq call.result.permissions

\* C27 witness for SEND_MESSAGES: an everyone overwrite denies it, no
\* overwrite allows it, and the text channel's result keeps the messaging
\* flags of the baseline.
C27_SendMessagesWitness ==
    /\ PermissionsCalled /\ InChannelCalled /\ permissions_result[1].ok
    /\ call.channel_type = "GuildText"
    /\ DeniedByEveryoneOnly("SEND_MESSAGES")
    /\ "SEND_MESSAGES" \notin ApplicableAllowed
    /\ "SEND_MESSAGES" \in permissions_result[1].permissions
    /\ call.result.ok
    /\ "SEND_MESSAGES" \notin call.result.permissions
    /\ {"EMBED_LINKS", "MENTION_EVERYONE"} \subseteq call.result.permissions

\* The overwrite of one held role denies flag x and the overwrite of
\* another held role allows it.
DeniedAndAllowedAcrossRoles(x) ==
    \E o1, o2 \in { q \in CallOverwrites : HeldRoleOverwrite(q) } :
        /\ o1.kind # o2.kind
        /\ x \in o1.deny
        /\ x \in o2.allow

\* No cascade fires on account of flag x: for VIEW_CHANNEL the result holds
\* it; for SEND_MESSAGES, in a text channel whose result the visibility
\* cascade has not emptied, the messaging flags the member's overwrite
\* allows are in the result.
NoCascadeOnAccountOf(x) ==
    /\ x = "VIEW_CHANNEL" => "VIEW_CHANNEL" \in call.result.permissions
    /\ (x = "SEND_MESSAGES" /\ call.channel_type = "GuildText"
            /\ ~DeniedAtALevel("VIEW_CHANNEL")) =>
          MemberAllowed \cap MessagingFlags \subseteq call.result.permissions

\* C28 (as claimed): if one held role's overwrite denies x, another held
\* role's overwrite allows x and the member's overwrite does not deny x, no
\* cascade fires on account of x and, for x not root-only, not of another
\* channel category and not removed by the messaging cascade, the result
\* holds x, whichever of the two overwrites comes first.
C28_AllowBeatsDenyAcrossRoles ==
    (InChannelCalled /\ call.result.ok) =>
        \A x \in NamedFlags :
            (DeniedAndAllowedAcrossRoles(x) /\ ~MemberDenies(x)) =>
                /\ NoCascadeOnAccountOf(x)
                /\ ( /\ x \notin RootOnly \cup OffCategory(call.channel_type)
                     /\ (x \in MessagingFlags => ~DeniedAtALevel("SEND_MESSAGES")) )
                   => x \in call.result.permissions

\* C28 (amended): the same, the result holding x when, besides, the
\* visibility cascade has not emptied it on account of another denial.
C28_AllowBeatsDenyAcrossRolesVisible ==
    (InChannelCalled /\ call.result.ok) =>
        \A x \in NamedFlags :
            (DeniedAndAllowedAcrossRoles(x) /\ ~MemberDenies(x)) =>
                /\ NoCascadeOnAccountOf(x)
                /\ ( /\ x \notin RootOnly \cup OffCategory(call.channel_type)
                     /\ (x \in MessagingFlags => ~DeniedAtALevel("SEND_MESSAGES"))
                     /\ ~DeniedAtALevel("VIEW_CHANNEL") )
                   => x \in call.result.permissions

\* C28 witness: the overwrite of role 4 denies VIEW_CHANNEL, the overwrite
\* of role 5 after it allows VIEW_CHANNEL, and the result holds it.
C28_Witness ==
    /\ InChannelCalled /\ call.result.ok
    /\ Len(call.channel_overwrites) >= 2
    /\ call.channel_overwrites[1].kind = << "Role", 4 >>
    /\ call.channel_overwrites[2].kind = << "Role", 5 >>
    /\ HeldRoleOverwrite(call.channel_overwrites[1])
    /\ HeldRoleOverwrite(call.channel_overwrites[2])
    /\ "VIEW_CHANNEL" \in call.channel_overwrites[1].deny
    /\ "VIEW_CHANNEL" \in call.channel_overwrites[2].allow
    /\ "VIEW_CHANNEL" \in call.result.permissions

\* C28 witness of the other order and of SEND_MESSAGES: the overwrite of
\* role 5 allows it, the overwrite of role 4 after it denies it, the
\* member's allows EMBED_LINKS, and the text channel's result holds both.
C28_OtherOrderWitness ==
    /\ InChannelCalled /\ call.result.ok
    /\ call.channel_type = "GuildText"
    /\ Len(call.channel_overwrites) = 3
    /\ call.channel_overwrites[1].kind = << "Role", 5 >>
    /\ call.channel_overwrites[2].kind = << "Role", 4 >>
    /\ HeldRoleOverwrite(call.channel_overwrites[1])
    /\ "SEND_MESSAGES" \in call.channel_overwrites[1].allow
    /\ "SEND_MESSAGES" \in call.channel_overwrites[2].deny
    /\ MemberOverwrite(call.channel_overwrites[3])
    /\ {"SEND_MESSAGES", "EMBED_LINKS"} \subseteq call.result.permissions

\* ------------------------------------------------------------------- C29

RECURSIVE Deduplicated(_)

\* The role IDs of a list, each listed once, at its first place.
Deduplicated(role_ids) ==
    IF role_ids = << >>
    THEN << >>
    ELSE LET rest == Deduplicated(SubSeq(role_ids, 1, Len(role_ids) - 1))
             last == role_ids[Len(role_ids)]
         IN  IF \E i \in 1..Len(rest) : rest[i] = last
             THEN rest
             ELSE Append(rest, last)

\* The member calculator with every held role ID listed once.
mc_deduplicated ==
    [mc EXCEPT !.member_role_ids = Deduplicated(mc.member_role_ids)]

\* C29: a member whose role collection lists a held role ID more than once
\* gets from permissions() and from in_channel() the outcome they give with
\* every ID listed once.
C29_DuplicateRolesHarmless ==
    /\ PermissionsCalled =>
          permissions(mc_deduplicated) = permissions_result[1]
    /\ InChannelCalled =>
          in_channel(mc_deduplicated, call.channel_type, call.channel_overwrites)
              = call.result

\* ------------------------------------------------------------------- C30

\* The everyone overwrites of the call that name flag x, by their place in
\* the list, and the last of them.
EveryoneNaming(x) ==
    { i \in EveryoneIndexes :
        x \in call.channel_overwrites[i].allow \cup call.channel_overwrites[i].deny }
LastEveryoneNaming(x) ==
    CHOOSE i \in EveryoneNaming(x) : \A j \in EveryoneNaming(x) : j <= i

\* No overwrite of a held role or of the member names flag x.
OnlyEveryoneNames(x) ==
    ~RoleAllows(x) /\ ~RoleDenies(x) /\ ~MemberAllows(x) /\ ~MemberDenies(x)

\* C30: the everyone overwrites are applied in list order, each as remove
\* deny then insert allow.  For a flag x that survives and that only
\* everyone overwrites name, the last everyone overwrite naming x decides:
\* the result holds x exactly if that overwrite allows x, be it denied by it
\* too or allowed or denied by an earlier everyone overwrite.
C30_EveryoneOverwritesInListOrder ==
    (InChannelCalled /\ call.result.ok) =>
        \A x \in { y \in NamedFlags : EveryoneNaming(y) # {} } :
            (Survives(x) /\ OnlyEveryoneNames(x)) =>
                (x \in call.result.permissions
                    <=> x \in call.channel_overwrites[LastEveryoneNaming(x)].allow)

\* C30 witness: two everyone overwrites in a text channel; the first allows
\* MANAGE_ROLES and denies SEND_MESSAGES, the second denies MANAGE_ROLES and
\* allows SEND_MESSAGES; the result holds SEND_MESSAGES and not MANAGE_ROLES.
C30_Witness ==
    /\ InChannelCalled /\ call.result.ok
    /\ call.channel_type = "GuildText"
    /\ Len(call.channel_overwrites) = 2
    /\ EveryoneOverwrite(call.channel_overwrites[1])
    /\ EveryoneOverwrite(call.channel_overwrites[2])
    /\ "MANAGE_ROLES" \in call.channel_overwrites[1].allow
    /\ "SEND_MESSAGES" \in call.channel_overwrites[1].deny
    /\ "MANAGE_ROLES" \in call.channel_overwrites[2].deny
    /\ "SEND_MESSAGES" \in call.channel_overwrites[2].allow
    /\ "SEND_MESSAGES" \in call.result.permissions
    /\ "MANAGE_ROLES" \notin call.result.permissions

\* C30 witness of one overwrite: an everyone overwrite allows and denies
\* MANAGE_WEBHOOKS, which no other overwrite names and the baseline does not
\* hold, and the text channel's result holds it.
C30_AllowAndDenyWitness ==
    /\ PermissionsCalled /\ InChannelCalled /\ call.result.ok
    /\ call.channel_type = "GuildText"
    /\ permissions_result[1].ok
    /\ "MANAGE_WEBHOOKS" \notin permissions_result[1].permissions
    /\ \E i \in EveryoneIndexes :
          "MANAGE_WEBHOOKS" \in call.channel_overwrites[i].allow
                                  \cap call.channel_overwrites[i].deny
    /\ OnlyEveryoneNames("MANAGE_WEBHOOKS")
    /\ "MANAGE_WEBHOOKS" \in call.result.permissions

====
